---- MODULE Spec2Model ----
(***************************************************************************)
(* State-derivation layer of the workflow dashboard                        *)
(* (src/dashboard/src/components/workflow-dashboard.tsx).                  *)
(*                                                                         *)
(* The component keeps four useState fields (clientFilter, statusFilter,   *)
(* searchTerm, selectedWorkflowId) over an immutable prop initialWorkflows *)
(* and derives, on every render, the client list, the filtered view set    *)
(* and the selected workflow.  formatRelative turns a timestamp into a     *)
(* relative label against the wall clock.                                  *)
(*                                                                         *)
(* Strings that the code searches in (names, clients, search terms) are    *)
(* tuples of one-character strings, so that toLowerCase and includes are   *)
(* computed; labels produced by formatRelative are TLA+ strings.           *)
(***************************************************************************)
EXTENDS Integers, Sequences, FiniteSets, TLC

VARIABLES
    initialWorkflows,    \* prop: the workflow collection (immutable)
    clientFilter,        \* useState, line 87
    statusFilter,        \* useState, line 88
    searchTerm,          \* useState, line 89
    selectedWorkflowId,  \* useState, lines 90-92
    lastAction,          \* history: the kind of handler that ran last: "filter",
                         \* "select", or "init" before any
    fallbackBefore,      \* history: before the last action the detail pane showed
                         \* a workflow other than the one selectedWorkflowId names
    clock,               \* the wall clock read by new Date(), in ms
    iso,                 \* the timestamp handed to formatRelative, in ms
    label,               \* the label the last render of formatRelative produced
    renderedAt           \* history: the clock reading of that render

vars == <<initialWorkflows, clientFilter, statusFilter, searchTerm,
          selectedWorkflowId, lastAction, fallbackBefore,
          clock, iso, label, renderedAt>>

dashVars == <<initialWorkflows, clientFilter, statusFilter, searchTerm,
              selectedWorkflowId, lastAction, fallbackBefore>>

timeVars == <<clock, iso, label, renderedAt>>

-----------------------------------------------------------------------------
(* Bounds of the model *)

\* longest workflow collection drawn as the initialWorkflows prop
MaxWorkflows == 2

\* targets lie up to MaxMinutes whole minutes (plus a remainder) from the clock
MaxMinutes == 2200

\* number of clock advances in one behaviour
MaxTicks == 2

-----------------------------------------------------------------------------
(* Strings as tuples of characters *)

\* the literal "all" of lines 87, 96 and 102
ALL == <<"a", "l", "l">>

\* the literal "" of line 89
EMPTY == <<>>

\* String.prototype.toLowerCase on one character of the model's alphabet
LowerChar(c) ==
    CASE c = "A" -> "a"
      [] c = "B" -> "b"
      [] c = "L" -> "l"
      [] OTHER   -> c

\* String.prototype.toLowerCase
toLowerCase(s) == [i \in 1..Len(s) |-> LowerChar(s[i])]

\* String.prototype.includes: sub occurs in s as a contiguous substring
includes(s, sub) ==
    \E i \in 0..(Len(s) - Len(sub)) : SubSeq(s, i + 1, i + Len(sub)) = sub

-----------------------------------------------------------------------------
(* Input domains *)

\* ids are unique; the i-th workflow of a collection carries the i-th id
IdOf(i) == "w" \o ToString(i)

WorkflowNames == { <<"L", "a">>, <<"a", "b">> }

\* client strings of the data: an ordinary one, and one that is the very
\* text of the literal "all"
WorkflowClients == { ALL, <<"l", "a">> }

\* WorkflowStatus values carried by the data
WorkflowStatuses == { "healthy", "failed" }

\* texts typed into the search box
SearchTerms == { EMPTY, <<"A", "L">>, <<"l", "a">>, <<"B">> }

\* values of statusFilters, lines 40-46
statusFilters == <<"all", "healthy", "warning", "failed", "paused">>

WorkflowAt(i) ==
    [id : {IdOf(i)}, name : WorkflowNames, client : WorkflowClients,
     status : WorkflowStatuses]

\* every collection of 0..MaxWorkflows workflows with unique ids
Collections ==
    UNION { { s \in [1..n -> UNION { WorkflowAt(i) : i \in 1..n }] :
                \A i \in 1..n : s[i] \in WorkflowAt(i) } : n \in 0..MaxWorkflows }

\* the value of "no workflow" (null)
NULL == [id |-> "null"]

-----------------------------------------------------------------------------
(* Derived values of a render, lines 94-123 *)

\* Array.from(new Set(xs)): distinct values in order of first appearance
RECURSIVE UniqueInOrder(_)
UniqueInOrder(xs) ==
    IF xs = <<>> THEN <<>>
    ELSE LET front == UniqueInOrder(SubSeq(xs, 1, Len(xs) - 1))
             last  == xs[Len(xs)]
         IN  IF \E i \in 1..Len(front) : front[i] = last
             THEN front ELSE Append(front, last)

\* lines 94-97
clients ==
    <<ALL>> \o UniqueInOrder([i \in 1..Len(initialWorkflows) |->
                                 initialWorkflows[i].client])

\* matchesClient with the comparison against the filter inverted
matchesClient_inverted(workflow) ==
    clientFilter = ALL \/ workflow.client # clientFilter

\* lines 101-102
matchesClient(workflow) ==
    clientFilter = ALL \/ workflow.client = clientFilter

\* lines 103-104
matchesStatus(workflow) ==
    statusFilter = "all" \/ workflow.status = statusFilter

\* matchesSearch without the case folding of the search term
matchesSearch_caseSensitive(workflow) ==
    \/ Len(searchTerm) = 0
    \/ includes(toLowerCase(workflow.name), searchTerm)
    \/ includes(toLowerCase(workflow.client), searchTerm)

\* lines 105-108
matchesSearch(workflow) ==
    \/ Len(searchTerm) = 0
    \/ includes(toLowerCase(workflow.name), toLowerCase(searchTerm))
    \/ includes(toLowerCase(workflow.client), toLowerCase(searchTerm))

\* the predicate handed to filter, lines 100-110
keep(workflow) ==
    matchesClient(workflow) /\ matchesStatus(workflow) /\ matchesSearch(workflow)

\* Array.prototype.filter
RECURSIVE Filter(_)
Filter(xs) ==
    IF xs = <<>> THEN <<>>
    ELSE IF keep(Head(xs)) THEN <<Head(xs)>> \o Filter(Tail(xs))
         ELSE Filter(Tail(xs))

\* lines 99-111
filteredWorkflows == Filter(initialWorkflows)

\* Array.prototype.find on the id: the first match, or NULL (undefined)
FindById(xs, id) ==
    IF \E i \in 1..Len(xs) : xs[i].id = id
    THEN xs[CHOOSE i \in 1..Len(xs) :
                /\ xs[i].id = id
                /\ \A j \in 1..(i - 1) : xs[j].id # id]
    ELSE NULL

\* selectedWorkflow without the lookup by id
selectedWorkflow_firstOnly ==
    IF Len(filteredWorkflows) > 0 THEN filteredWorkflows[1] ELSE NULL

\* lines 118-123
selectedWorkflow ==
    LET found == FindById(filteredWorkflows, selectedWorkflowId)
        byId  == IF found # NULL THEN found
                 ELSE IF Len(filteredWorkflows) > 0 THEN filteredWorkflows[1]
                 ELSE NULL
    IN  byId

\* line 233: selectedWorkflow?.id === workflow.id, the row drawn as selected
rowSelected(workflow) ==
    selectedWorkflow # NULL /\ selectedWorkflow.id = workflow.id

\* lines 228-236: the positions of the list whose row is drawn as selected
selectedRows ==
    { i \in 1..Len(filteredWorkflows) : rowSelected(filteredWorkflows[i]) }

\* the detail pane shows a workflow, and not the one the stored id names
ShowsFallback ==
    selectedWorkflow # NULL /\ selectedWorkflow.id # selectedWorkflowId

-----------------------------------------------------------------------------
(* Construction and handlers *)

\* DefaultSelectedId taking the last workflow instead of the first
DefaultSelectedId_last(wfs) == IF Len(wfs) > 0 THEN wfs[Len(wfs)].id ELSE ""

\* lines 90-92: initialWorkflows[0]?.id ?? ""
DefaultSelectedId(wfs) == IF Len(wfs) > 0 THEN wfs[1].id ELSE ""

\* the clock and label are idle while the dashboard state is explored
TimeIdle ==
    /\ clock = 0
    /\ iso = 0
    /\ label = "Now"
    /\ renderedAt = 0

\* lines 87-92
Init ==
    /\ initialWorkflows \in Collections
    /\ clientFilter = ALL
    /\ statusFilter = "all"
    /\ searchTerm = EMPTY
    /\ selectedWorkflowId = DefaultSelectedId(initialWorkflows)
    /\ lastAction = "init"
    /\ fallbackBefore = FALSE
    /\ TimeIdle

\* line 184: the select offers the entries of clients; a set-state call with
\* the current value re-renders nothing
SetClientFilter(value) ==
    /\ value # clientFilter
    /\ clientFilter' = value
    /\ lastAction' = "filter"
    /\ fallbackBefore' = ShowsFallback
    /\ UNCHANGED <<initialWorkflows, statusFilter, searchTerm, selectedWorkflowId>>
    /\ UNCHANGED timeVars

\* line 202
SetStatusFilter(value) ==
    /\ value # statusFilter
    /\ statusFilter' = value
    /\ lastAction' = "filter"
    /\ fallbackBefore' = ShowsFallback
    /\ UNCHANGED <<initialWorkflows, clientFilter, searchTerm, selectedWorkflowId>>
    /\ UNCHANGED timeVars

\* SetSearchTerm that also clears the stored selection
SetSearchTerm_resetsSelection(value) ==
    /\ value # searchTerm
    /\ searchTerm' = value
    /\ selectedWorkflowId' = ""
    /\ lastAction' = "filter"
    /\ fallbackBefore' = ShowsFallback
    /\ UNCHANGED <<initialWorkflows, clientFilter, statusFilter>>
    /\ UNCHANGED timeVars

\* line 212
SetSearchTerm(value) ==
    /\ value # searchTerm
    /\ searchTerm' = value
    /\ lastAction' = "filter"
    /\ fallbackBefore' = ShowsFallback
    /\ UNCHANGED <<initialWorkflows, clientFilter, statusFilter, selectedWorkflowId>>
    /\ UNCHANGED timeVars

\* SetSelectedWorkflowId storing the id of the first row, whatever row is clicked
SetSelectedWorkflowId_firstRow(value) ==
    /\ value # selectedWorkflowId
    /\ selectedWorkflowId' = filteredWorkflows[1].id
    /\ lastAction' = "select"
    /\ fallbackBefore' = ShowsFallback
    /\ UNCHANGED <<initialWorkflows, clientFilter, statusFilter, searchTerm>>
    /\ UNCHANGED timeVars

\* line 231: a row of the list is clicked
SetSelectedWorkflowId(value) ==
    /\ value # selectedWorkflowId
    /\ selectedWorkflowId' = value
    /\ lastAction' = "select"
    /\ fallbackBefore' = ShowsFallback
    /\ UNCHANGED <<initialWorkflows, clientFilter, statusFilter, searchTerm>>
    /\ UNCHANGED timeVars

Next ==
    \/ \E i \in 1..Len(clients) : SetClientFilter(clients[i])
    \/ \E i \in 1..Len(statusFilters) : SetStatusFilter(statusFilters[i])
    \/ \E value \in SearchTerms : SetSearchTerm(value)
    \/ \E i \in 1..Len(filteredWorkflows) :
           SetSelectedWorkflowId(filteredWorkflows[i].id)

Spec == Init /\ [][Next]_vars

-----------------------------------------------------------------------------
(* formatRelative, lines 60-80 *)

\* MathRound truncating instead of rounding to the nearest integer
MathRound_floor(num, den) == num \div den

\* Math.round(num / den) for den > 0: the nearest integer, a half rounding
\* towards plus infinity (Math.round(-0.5) is -0, Math.round(0.5) is 1)
MathRound(num, den) == (2 * num + den) \div (2 * den)

\* Math.abs
MathAbs(x) == IF x < 0 THEN 0 - x ELSE x

\* lines 65-71, for diffMs < 0
futureLabel(diffMs) ==
    LET futureMinutes == MathAbs(MathRound(diffMs, 60000))
        futureHours   == MathRound(futureMinutes, 60)
        futureDays    == MathRound(futureHours, 24)
    IN  IF futureMinutes < 1 THEN "In moments"
        ELSE IF futureMinutes < 60 THEN "In " \o ToString(futureMinutes) \o " min"
        ELSE IF futureHours < 24 THEN "In " \o ToString(futureHours) \o " hr"
        ELSE "In " \o ToString(futureDays) \o "d"

\* pastLabel with the minute threshold tested by <= instead of <
pastLabel_le60(diffMs) ==
    LET diffMins  == MathRound(diffMs, 60000)
        diffHours == MathRound(diffMins, 60)
        diffDays  == MathRound(diffHours, 24)
    IN  IF diffMins < 1 THEN "Now"
        ELSE IF diffMins <= 60 THEN ToString(diffMins) \o " min ago"
        ELSE IF diffHours < 24 THEN ToString(diffHours) \o " hr ago"
        ELSE ToString(diffDays) \o "d ago"

\* lines 73-79, for diffMs >= 0
pastLabel(diffMs) ==
    LET diffMins  == MathRound(diffMs, 60000)
        diffHours == MathRound(diffMins, 60)
        diffDays  == MathRound(diffHours, 24)
    IN  IF diffMins < 1 THEN "Now"
        ELSE IF diffMins < 60 THEN ToString(diffMins) \o " min ago"
        ELSE IF diffHours < 24 THEN ToString(diffHours) \o " hr ago"
        ELSE ToString(diffDays) \o "d ago"

\* lines 60-80: now is read from the wall clock, then is the argument
formatRelative(then) ==
    LET now    == clock
        diffMs == now - then
    IN  IF diffMs < 0 THEN futureLabel(diffMs) ELSE pastLabel(diffMs)

\* remainders within a minute: Math.round(diffMs / 60000) changes its value
\* only where diffMs is 30000 modulo 60000, so these cover both sides of every
\* rounding step, the whole minutes and the 59 s mark
Remainders == { 0, 1, 29999, 30000, 30001, 59000, 59999 }

\* distances between the clock and a target, in ms
Offsets == { m * 60000 + r : m \in 0..MaxMinutes, r \in Remainders }

\* timestamps handed to formatRelative (lastRunAt, nextRunAt), around the
\* initial clock reading 0
Targets == { d : d \in Offsets } \cup { 0 - d : d \in Offsets }

\* the dashboard state is idle while the labels are explored
DashIdle ==
    /\ initialWorkflows = <<>>
    /\ clientFilter = ALL
    /\ statusFilter = "all"
    /\ searchTerm = EMPTY
    /\ selectedWorkflowId = ""
    /\ lastAction = "init"
    /\ fallbackBefore = FALSE

\* the first render of a timestamp, lines 305 and 317
InitTime ==
    /\ DashIdle
    /\ clock = 0
    /\ iso \in Targets
    /\ label = formatRelative(iso)
    /\ renderedAt = clock

\* time passes; nothing re-renders by itself
TickMs == 30000

Tick ==
    /\ clock < MaxTicks * TickMs
    /\ clock' = clock + TickMs
    /\ UNCHANGED <<iso, label, renderedAt>>
    /\ UNCHANGED dashVars

\* a re-render evaluates formatRelative on the same timestamp again
Render ==
    /\ label' = formatRelative(iso)
    /\ renderedAt' = clock
    /\ UNCHANGED <<clock, iso>>
    /\ UNCHANGED dashVars

NextTime == Tick \/ Render

SpecTime == InitTime /\ [][NextTime]_vars

\* the derivation on arbitrary field values, reachable through the handlers
\* or not: an unknown client (a known one written in capitals), a status
\* outside the enum, an id of no workflow
UnknownClient == <<"L", "A">>

InitDerive ==
    /\ initialWorkflows \in Collections
    /\ clientFilter \in WorkflowClients \cup {UnknownClient}
    /\ statusFilter \in { statusFilters[i] : i \in 1..Len(statusFilters) }
                            \cup {"unknown"}
    /\ searchTerm \in SearchTerms
    /\ selectedWorkflowId \in { IdOf(i) : i \in 1..MaxWorkflows }
                                  \cup {"nonexistent-id"}
    /\ lastAction = "init"
    /\ fallbackBefore = FALSE
    /\ TimeIdle

SpecDerive == InitDerive /\ [][Next]_vars

-----------------------------------------------------------------------------
(* Vocabulary of the properties *)

Ids(xs) == { xs[i].id : i \in 1..Len(xs) }

Members(xs) == { xs[i] : i \in 1..Len(xs) }

\* two characters are the same letter, whatever their case
SameLetter(x, y) ==
    \/ x = y
    \/ {x, y} \in { {"a", "A"}, {"b", "B"}, {"l", "L"} }

\* s contains t at some position, comparing letter by letter ignoring case
ContainsIgnoreCase(s, t) ==
    \E i \in 0..(Len(s) - Len(t)) :
        \A j \in 1..Len(t) : SameLetter(s[i + j], t[j])

\* the inclusion rule of the filter, as the specification words it
Included(w) ==
    /\ clientFilter = ALL \/ w.client = clientFilter
    /\ statusFilter = "all" \/ w.status = statusFilter
    /\ \/ searchTerm = EMPTY
       \/ ContainsIgnoreCase(w.name, searchTerm)
       \/ ContainsIgnoreCase(w.client, searchTerm)

\* ys is xs with some elements left out: the kept ones in their order, once
IsSubsequence(ys, xs) ==
    \E g \in [1..Len(ys) -> 1..Len(xs)] :
        /\ \A j \in 1..Len(ys) : ys[j] = xs[g[j]]
        /\ \A j, k \in 1..Len(ys) : j < k => g[j] < g[k]

-----------------------------------------------------------------------------
(* C1 *)

\* C1: the selected workflow is the element of the view set whose id is
\* selectedWorkflowId when there is one, else the first element of the view
\* set when it is non-empty, else null; so it is null exactly when the view
\* set is empty and otherwise a member of the view set.
C1_SelectionResolution ==
    LET f == filteredWorkflows
        s == selectedWorkflow
    IN  /\ selectedWorkflowId \in Ids(f) =>
               s \in Members(f) /\ s.id = selectedWorkflowId
        /\ (selectedWorkflowId \notin Ids(f) /\ Len(f) > 0) => s = f[1]
        /\ Len(f) = 0 => s = NULL
        /\ s = NULL <=> Len(f) = 0
        /\ s # NULL => s \in Members(f)

\* a filter change has put the stored id out of a non-empty view set whose
\* first element is another workflow than the one that id names
C1_Witness ==
    /\ lastAction = "filter"
    /\ selectedWorkflowId \in Ids(initialWorkflows)
    /\ selectedWorkflowId \notin Ids(filteredWorkflows)
    /\ Len(filteredWorkflows) > 0

-----------------------------------------------------------------------------
(* C2 *)

\* C2: a workflow is in the view set iff the client, status and search rules
\* all admit it (the search ignoring case), and the view set is a subsequence
\* of the input: relative order kept, nothing duplicated.
C2_FilterInclusion ==
    LET f == filteredWorkflows
    IN  /\ \A i \in 1..Len(initialWorkflows) :
               initialWorkflows[i] \in Members(f) <=> Included(initialWorkflows[i])
        /\ IsSubsequence(f, initialWorkflows)
        /\ \A j, k \in 1..Len(f) : j # k => f[j] # f[k]
        /\ Len(f) <= Len(initialWorkflows)

\* a search term typed in capitals keeps a workflow whose client is written
\* in small letters, and drops another workflow
C2_Witness ==
    /\ lastAction = "filter"
    /\ searchTerm = <<"A", "L">>
    /\ \E w \in Members(filteredWorkflows) : w.client = ALL
    /\ Len(filteredWorkflows) < Len(initialWorkflows)

-----------------------------------------------------------------------------
(* C7 *)

\* C7: a clientFilter that is no workflow's client, or a statusFilter outside
\* the four statuses, gives an empty view set and a null selected workflow; a
\* selectedWorkflowId that matches nothing in the view set gives its first
\* element, null when it is empty; the derivation always yields a value.
C7_UnknownValuesNoMatch ==
    LET f == filteredWorkflows
        s == selectedWorkflow
        unknownClient ==
            /\ clientFilter # ALL
            /\ \A w \in Members(initialWorkflows) : w.client # clientFilter
        unknownStatus ==
            statusFilter \notin {"all", "healthy", "warning", "failed", "paused"}
    IN  /\ unknownClient => f = <<>> /\ s = NULL
        /\ unknownStatus => f = <<>> /\ s = NULL
        /\ selectedWorkflowId \notin Ids(f) =>
               s = IF Len(f) > 0 THEN f[1] ELSE NULL
        /\ s \in Members(f) \cup {NULL}

\* a handler has run while clientFilter names a client of no workflow of a
\* non-empty collection
C7_Witness ==
    /\ lastAction # "init"
    /\ clientFilter = UnknownClient
    /\ Len(initialWorkflows) > 0
    /\ filteredWorkflows = <<>>

-----------------------------------------------------------------------------
(* C8 *)

\* C8: the client list is "all" followed by the clients of the whole
\* collection in order of first appearance, and no entry occurs in it twice
\* (it depends on the collection alone, which no action changes).
C8_ClientListDistinct ==
    LET cs == [i \in 1..Len(initialWorkflows) |-> initialWorkflows[i].client]
        first(c) == CHOOSE i \in 1..Len(cs) :
                        cs[i] = c /\ \A j \in 1..(i - 1) : cs[j] # c
        rest == SubSeq(clients, 2, Len(clients))
    IN  /\ Len(clients) >= 1
        /\ clients[1] = ALL
        /\ Members(rest) = Members(cs)
        /\ \A i, j \in 1..Len(rest) : i < j => first(rest[i]) < first(rest[j])
        /\ \A i, j \in 1..Len(clients) : i # j => clients[i] # clients[j]

-----------------------------------------------------------------------------
(* C9 *)

\* C9: before any action the state is all / all / "" with the first
\* workflow's id selected; there, and whenever the three filters have these
\* values, the view set is the whole collection in its order, and in the
\* initial state the selected workflow is the first one, null when the
\* collection is empty.
C9_FreshInitialization ==
    /\ lastAction = "init" =>
        /\ clientFilter = ALL
        /\ statusFilter = "all"
        /\ searchTerm = EMPTY
        /\ Len(initialWorkflows) > 0 =>
               /\ selectedWorkflowId = initialWorkflows[1].id
               /\ selectedWorkflow = initialWorkflows[1]
        /\ Len(initialWorkflows) = 0 => selectedWorkflow = NULL
    /\ (clientFilter = ALL /\ statusFilter = "all" /\ searchTerm = EMPTY) =>
           filteredWorkflows = initialWorkflows

\* the freshly constructed dashboard over a collection of two workflows
C9_Witness ==
    /\ lastAction = "init"
    /\ Len(initialWorkflows) >= 2
    /\ selectedWorkflow = initialWorkflows[1]

-----------------------------------------------------------------------------
(* C10 *)

\* C10: every action changes exactly one of the four fields and never the
\* collection; a change of clientFilter, statusFilter or searchTerm leaves
\* selectedWorkflowId as it was; and whenever the view set after the action
\* holds the workflow with the stored id, that workflow is the selected one.
C10_SelectionStickiness ==
    [][ /\ (IF clientFilter' # clientFilter THEN 1 ELSE 0)
             + (IF statusFilter' # statusFilter THEN 1 ELSE 0)
             + (IF searchTerm' # searchTerm THEN 1 ELSE 0)
             + (IF selectedWorkflowId' # selectedWorkflowId THEN 1 ELSE 0) = 1
        /\ initialWorkflows' = initialWorkflows
        /\ (\/ clientFilter' # clientFilter
            \/ statusFilter' # statusFilter
            \/ searchTerm' # searchTerm) => selectedWorkflowId' = selectedWorkflowId
        /\ selectedWorkflowId' \in Ids(filteredWorkflows') =>
               selectedWorkflow'.id = selectedWorkflowId'
      ]_vars

\* a filter change has brought the workflow with the stored id back: before
\* it the detail pane showed another workflow as the fallback
C10_Witness ==
    /\ lastAction = "filter"
    /\ fallbackBefore
    /\ selectedWorkflowId \in Ids(filteredWorkflows)
    /\ selectedWorkflow.id = selectedWorkflowId

-----------------------------------------------------------------------------
(* Vocabulary of the label properties *)

\* now - then of the render that produced label
RenderedDiff == renderedAt - iso

\* largest day count a label of the model can carry
MaxDays == (MaxMinutes + MaxTicks + 1) \div 1440 + 2

MinuteTexts == { ToString(n) \o " min" : n \in 1..59 }

HourTexts == { ToString(n) \o " hr" : n \in 1..23 }

DayTexts == { ToString(n) \o "d" : n \in 1..MaxDays }

NumberUnitTexts == MinuteTexts \cup HourTexts \cup DayTexts

\* the well-formed labels: a minute count 1..59, an hour count 1..23, a day
\* count from 1, or one of the two sub-minute texts
WellFormedLabels ==
    {"Now", "In moments"}
        \cup { x \o " ago" : x \in NumberUnitTexts }
        \cup { "In " \o x : x \in NumberUnitTexts }

\* fut and past carry the same number and unit
Counterparts(fut, past) ==
    \/ fut = "In moments" /\ past = "Now"
    \/ \E x \in NumberUnitTexts : fut = "In " \o x /\ past = x \o " ago"

-----------------------------------------------------------------------------
(* C3 *)

\* C3 as stated: a target 59 seconds before now is labelled "Now".
C3_Original ==
    RenderedDiff = 59000 => label = "Now"

\* C3, amended: the difference is rounded to the nearest minute, so a
\* target 59 seconds before now is labelled "1 min ago", and a past target
\* is labelled "Now" exactly when it is less than 30 seconds old.
C3_SubMinuteRounded ==
    /\ RenderedDiff = 59000 => label = "1 min ago"
    /\ RenderedDiff >= 0 => (label = "Now" <=> RenderedDiff < 30000)

\* formatRelative has rendered a target 59 seconds before the clock
C3_Witness ==
    /\ RenderedDiff = 59000
    /\ label # "Now"

-----------------------------------------------------------------------------
(* C4 *)

\* C4: a target d after now and a target d before now get labels with the
\* same number and unit, for every d > 0, half minutes included.
C4_RoundingSymmetric ==
    LET d == MathAbs(RenderedDiff)
    IN  /\ RenderedDiff < 0 => Counterparts(label, pastLabel(d))
        /\ RenderedDiff > 0 => Counterparts(futureLabel(0 - d), label)

-----------------------------------------------------------------------------
(* C5 *)

\* C5: a minute label shows 1..59, an hour label 1..23, a day label a number
\* from 1, for past and future targets; exactly 60 s in the past is
\* "1 min ago", exactly 60 min "1 hr ago", exactly 24 h "1d ago", and the
\* same distances in the future are "In 1 min", "In 1 hr" and "In 1d".
C5_UnitCoarsening ==
    /\ label \in WellFormedLabels
    /\ RenderedDiff = 60000 => label = "1 min ago"
    /\ RenderedDiff = 3600000 => label = "1 hr ago"
    /\ RenderedDiff = 86400000 => label = "1d ago"
    /\ RenderedDiff = 0 - 60000 => label = "In 1 min"
    /\ RenderedDiff = 0 - 3600000 => label = "In 1 hr"
    /\ RenderedDiff = 0 - 86400000 => label = "In 1d"

\* formatRelative has rendered a target exactly 60 minutes before the clock
C5_Witness ==
    /\ RenderedDiff = 3600000
    /\ label = "1 hr ago"

-----------------------------------------------------------------------------
(* C6 *)

\* C6: two evaluations of formatRelative for the same timestamp give the
\* same label, whenever they are made.
C6_LabelIndependentOfClock ==
    [][ iso' = iso => label' = label ]_vars

-----------------------------------------------------------------------------
(* C11 *)

\* C11: when a row of the view set is clicked, the workflow of that row is
\* the selected workflow afterwards and exactly one row is drawn as selected;
\* and a workflow selected by its stored id stays the selected one over every
\* action that neither stores another id nor takes it out of the view set.
C11_RowSelectionTakesEffect ==
    [][ /\ lastAction' = "select" =>
               \A i \in 1..Len(filteredWorkflows) :
                   SetSelectedWorkflowId(filteredWorkflows[i].id) =>
                       /\ selectedWorkflow' = filteredWorkflows[i]
                       /\ Cardinality(selectedRows') = 1
        /\ selectedWorkflowId' # selectedWorkflowId =>
               /\ selectedWorkflowId' \in Ids(filteredWorkflows)
               /\ selectedWorkflow'.id = selectedWorkflowId'
        /\ (/\ selectedWorkflowId' = selectedWorkflowId
            /\ selectedWorkflow.id = selectedWorkflowId
            /\ selectedWorkflowId \in Ids(filteredWorkflows')) =>
               selectedWorkflow' = selectedWorkflow
      ]_vars

\* a row other than the first has been clicked, and its workflow is now the
\* selected one
C11_Witness ==
    /\ lastAction = "select"
    /\ Len(filteredWorkflows) >= 2
    /\ filteredWorkflows[1].id # selectedWorkflowId
    /\ selectedWorkflow.id = selectedWorkflowId
    /\ Cardinality(selectedRows) = 1

====
